---- MODULE Spec2Model ----
(***************************************************************************)
(* Model of the ili9341 display driver: the controller (src/src/lib.rs),   *)
(* its initialization sequence, the window-addressed pixel write protocol, *)
(* the orientation model and the pixel adapters that feed it               *)
(* (Drawing::draw in lib.rs, DrawTarget::draw_iter in graphics.rs and      *)
(* graphics_core.rs).                                                      *)
(*                                                                         *)
(* The bus, the reset pin and the delay provider are observed through a    *)
(* recording log `events`: one entry per operation that completed          *)
(* successfully.  The log is cleared at the entry of every public call, so *)
(* it always holds what the call in progress (or the last call) emitted.   *)
(***************************************************************************)
EXTENDS Integers, Sequences, FiniteSets, TLC

(***************************************************************************)
(* Bounds of the model                                                     *)
(***************************************************************************)
\* longest pixel stream handed to Drawing::draw in one call
MaxPixels == 4
\* longest pixel stream handed to DrawTarget::draw_iter in one call
MaxIter == 3
\* longest stream of Drawing::draw that is a single row of adjacent pixels
MaxRun == 33
\* largest value top_offset + n a scroll_by call is given
MaxOffset == 1000
\* widest area handed to fill_contiguous
MaxSide == 3

(***************************************************************************)
(* Program constants                                                       *)
(***************************************************************************)
WIDTH == 240
HEIGHT == 320
BUF_SIZE == 32

\* enum Command (lib.rs)
SoftwareReset == 1
PowerControlA == 203
PowerControlB == 207
DriverTimingControlA == 232
DriverTimingControlB == 234
PowerOnSequenceControl == 237
PumpRatioControl == 247
PowerControl1 == 192
PowerControl2 == 193
VCOMControl1 == 197
VCOMControl2 == 199
MemoryAccessControl == 54
PixelFormatSet == 58
FrameControlNormal == 177
DisplayFunctionControl == 182
Enable3G == 242
GammaSet == 38
PositiveGammaCorrection == 224
NegativeGammaCorrection == 225
SleepOut == 17
DisplayOn == 41
ColumnAddressSet == 42
PageAddressSet == 43
MemoryWrite == 44

Orientation == {"Portrait", "PortraitFlipped", "Landscape", "LandscapeFlipped"}

(***************************************************************************)
(* Integer arithmetic of the source: shifts, masks, ors and casts          *)
(***************************************************************************)
RECURSIVE BitOr(_, _)
BitOr(a, b) ==
    IF a = 0 THEN b
    ELSE IF b = 0 THEN a
    ELSE (IF a % 2 = 1 \/ b % 2 = 1 THEN 1 ELSE 0) + 2 * BitOr(a \div 2, b \div 2)

RECURSIVE BitAnd(_, _)
BitAnd(a, b) ==
    IF a = 0 \/ b = 0 THEN 0
    ELSE (IF a % 2 = 1 /\ b % 2 = 1 THEN 1 ELSE 0) + 2 * BitAnd(a \div 2, b \div 2)

Shr(a, n) == a \div (2 ^ n)

as_u8(a) == a % 256

as_u16(a) == a % 65536

\* RawU16::from(color).into_inner(): Rgb565 packed as rrrrrggg gggbbbbb
RawU16(color) == color.r * 2048 + color.g * 32 + color.b

(***************************************************************************)
(* The recording log                                                       *)
(***************************************************************************)
PinEvent(level) == [kind |-> "pin", val |-> level, data |-> <<>>]

DelayEvent(ms) == [kind |-> "delay", val |-> ms, data |-> <<>>]

\* Ili9341::command: interface.write(cmd as u8, args)
command(cmd, args) == [kind |-> "write", val |-> cmd, data |-> args]

\* write_iter that sends the opcode after memory-write
write_iter_next_opcode(data) ==
    [kind |-> "write_iter", val |-> MemoryWrite + 1, data |-> data]

\* Ili9341::write_iter: interface.write_iter(Command::MemoryWrite as u8, data)
write_iter(data) == [kind |-> "write_iter", val |-> MemoryWrite, data |-> data]

(***************************************************************************)
(* Initialization: the straight-line program of Ili9341::new               *)
(***************************************************************************)
\* hard_reset that leaves the reset pin low
hard_reset_left_low ==
    << PinEvent(1), DelayEvent(200),
       PinEvent(0), DelayEvent(200) >>

\* hard_reset that toggles the reset pin without waiting
hard_reset_no_delay ==
    << PinEvent(1), PinEvent(0), PinEvent(1) >>

hard_reset ==
    << PinEvent(1), DelayEvent(200),
       PinEvent(0), DelayEvent(200),
       PinEvent(1), DelayEvent(200) >>

\* Ili9341::new waking the panel up before the gamma tables are loaded
new_steps_early_sleep_out ==
    hard_reset \o
    << command(SoftwareReset, <<>>),
       DelayEvent(200),
       command(PowerControlA, <<57, 44, 0, 52, 2>>),
       command(PowerControlB, <<0, 193, 48>>),
       command(DriverTimingControlA, <<133, 0, 120>>),
       command(DriverTimingControlB, <<0, 0>>),
       command(PowerOnSequenceControl, <<100, 3, 18, 129>>),
       command(PumpRatioControl, <<32>>),
       command(PowerControl1, <<35>>),
       command(PowerControl2, <<16>>),
       command(VCOMControl1, <<62, 40>>),
       command(VCOMControl2, <<134>>),
       command(MemoryAccessControl, <<72>>),
       command(PixelFormatSet, <<85>>),
       command(FrameControlNormal, <<0, 24>>),
       command(DisplayFunctionControl, <<8, 130, 39>>),
       command(Enable3G, <<0>>),
       command(GammaSet, <<1>>),
       command(SleepOut, <<>>),
       DelayEvent(120),
       command(PositiveGammaCorrection,
               <<15, 49, 43, 12, 14, 8, 78, 241, 55, 7, 16, 3, 14, 9, 0>>),
       command(NegativeGammaCorrection,
               <<0, 14, 20, 3, 17, 7, 49, 193, 72, 8, 15, 12, 49, 54, 15>>),
       command(DisplayOn, <<>>) >>

new_steps ==
    hard_reset \o
    << command(SoftwareReset, <<>>),
       DelayEvent(200),
       command(PowerControlA, <<57, 44, 0, 52, 2>>),
       command(PowerControlB, <<0, 193, 48>>),
       command(DriverTimingControlA, <<133, 0, 120>>),
       command(DriverTimingControlB, <<0, 0>>),
       command(PowerOnSequenceControl, <<100, 3, 18, 129>>),
       command(PumpRatioControl, <<32>>),
       command(PowerControl1, <<35>>),
       command(PowerControl2, <<16>>),
       command(VCOMControl1, <<62, 40>>),
       command(VCOMControl2, <<134>>),
       command(MemoryAccessControl, <<72>>),
       command(PixelFormatSet, <<85>>),
       command(FrameControlNormal, <<0, 24>>),
       command(DisplayFunctionControl, <<8, 130, 39>>),
       command(Enable3G, <<0>>),
       command(GammaSet, <<1>>),
       command(PositiveGammaCorrection,
               <<15, 49, 43, 12, 14, 8, 78, 241, 55, 7, 16, 3, 14, 9, 0>>),
       command(NegativeGammaCorrection,
               <<0, 14, 20, 3, 17, 7, 49, 193, 72, 8, 15, 12, 49, 54, 15>>),
       command(SleepOut, <<>>),
       DelayEvent(120),
       command(DisplayOn, <<>>) >>

(***************************************************************************)
(* Window-addressed pixel write protocol                                   *)
(***************************************************************************)
\* set_window sending each coordinate low byte first
set_window_little_endian(x0, y0, x1, y1) ==
    << command(ColumnAddressSet,
               << as_u8(BitAnd(x0, 255)), as_u8(Shr(x0, 8)),
                  as_u8(BitAnd(x1, 255)), as_u8(Shr(x1, 8)) >>),
       command(PageAddressSet,
               << as_u8(BitAnd(y0, 255)), as_u8(Shr(y0, 8)),
                  as_u8(BitAnd(y1, 255)), as_u8(Shr(y1, 8)) >>) >>

set_window(x0, y0, x1, y1) ==
    << command(ColumnAddressSet,
               << as_u8(Shr(x0, 8)), as_u8(BitAnd(x0, 255)),
                  as_u8(Shr(x1, 8)), as_u8(BitAnd(x1, 255)) >>),
       command(PageAddressSet,
               << as_u8(Shr(y0, 8)), as_u8(BitAnd(y0, 255)),
                  as_u8(Shr(y1, 8)), as_u8(BitAnd(y1, 255)) >>) >>

\* the bus commands of one draw_raw / draw_iter call, in program order
draw_raw_cmds(x0, y0, x1, y1, data) ==
    set_window(x0, y0, x1, y1) \o << write_iter(data) >>

(***************************************************************************)
(* Orientation model                                                       *)
(***************************************************************************)
\* set_orientation that forgets to swap the dimensions for LandscapeFlipped
OrientationSize_no_swap(mode) ==
    CASE mode = "Portrait"         -> << WIDTH, HEIGHT >>
      [] mode = "Landscape"        -> << HEIGHT, WIDTH >>
      [] mode = "PortraitFlipped"  -> << WIDTH, HEIGHT >>
      [] mode = "LandscapeFlipped" -> << WIDTH, HEIGHT >>

\* the (width, height) assigned by set_orientation
OrientationSize(mode) ==
    CASE mode = "Portrait"         -> << WIDTH, HEIGHT >>
      [] mode = "Landscape"        -> << HEIGHT, WIDTH >>
      [] mode = "PortraitFlipped"  -> << WIDTH, HEIGHT >>
      [] mode = "LandscapeFlipped" -> << HEIGHT, WIDTH >>

\* set_orientation that omits the column-order bit of LandscapeFlipped
OrientationByte_no_mx(mode) ==
    CASE mode = "Portrait"         -> BitOr(64, 8)
      [] mode = "Landscape"        -> BitOr(32, 8)
      [] mode = "PortraitFlipped"  -> BitOr(128, 8)
      [] mode = "LandscapeFlipped" -> BitOr(BitOr(128, 32), 8)

\* the argument byte of the MemoryAccessControl command of set_orientation
OrientationByte(mode) ==
    CASE mode = "Portrait"         -> BitOr(64, 8)
      [] mode = "Landscape"        -> BitOr(32, 8)
      [] mode = "PortraitFlipped"  -> BitOr(128, 8)
      [] mode = "LandscapeFlipped" -> BitOr(BitOr(BitOr(64, 128), 32), 8)

(***************************************************************************)
(* Pixel adapters: what they accept                                        *)
(***************************************************************************)
\* the filter with an inclusive right edge
on_screen_pixels_inclusive(point, w, h) ==
    point.x >= 0 /\ point.y >= 0 /\ point.x <= w /\ point.y < h

\* Drawing::draw (lib.rs): the filter closure on_screen_pixels
on_screen_pixels(point, w, h) ==
    point.x >= 0 /\ point.y >= 0 /\ point.x < w /\ point.y < h

\* DrawTarget::draw_iter (graphics.rs): the condition of the if
graphics_on_screen(coord, w, h) ==
    coord.x >= 0 /\ coord.y >= 0 /\ coord.x < w /\ coord.y < h

\* DrawTarget::draw_iter (graphics_core.rs): self.bounding_box().contains(point),
\* the bounding box being Rectangle::new(Point::zero(), self.size())
bounding_box_contains(point, w, h) ==
    /\ point.x >= 0 /\ point.x < 0 + w
    /\ point.y >= 0 /\ point.y < 0 + h

\* the contiguity test accepting any pixel further right on the row
contiguous_any_gap(pos, n, y, ex) ==
    n = 0 \/ (pos.y = y /\ pos.x > ex /\ n < BUF_SIZE - 1)

\* the contiguity test without the limit on the fill count
contiguous_no_limit(pos, n, y, ex) ==
    n = 0 \/ (pos.y = y /\ pos.x = ex + 1)

\* Drawing::draw: the test "pixel is contiguous with previous pixel"
contiguous(pos, n, y, ex) ==
    n = 0 \/ (pos.y = y /\ pos.x = ex + 1 /\ n < BUF_SIZE - 1)

\* the buffered words handed over starting one slot late
RowSlice_rotated(r, n) == [k \in 1 .. n |-> r[k % n]]

\* &row[0..i]
RowSlice(r, n) == [k \in 1 .. n |-> r[k - 1]]

(***************************************************************************)
(* State                                                                   *)
(***************************************************************************)
VARIABLES
    pc,       \* "new", "failed", "ready", "draw", "graphics", "graphics_core", "panicked"
    ip,       \* position in new_steps while pc = "new"
    op,       \* the public call in progress, or the last one
    arg,      \* its argument (the orientation asked for, the window and data)
    ret,      \* its result: "running", "Ok", "Interface", "OutputPin", "panic"
    reset,    \* level of the reset pin
    events,   \* what the call has done on the pin, the delay and the bus
    width,    \* Ili9341.width
    height,   \* Ili9341.height
    input,    \* pixels the adapter has taken from its stream so far
    row,      \* Drawing::draw: row buffer
    i,        \* Drawing::draw: fill count
    lasty,    \* Drawing::draw
    startx,   \* Drawing::draw
    endx,     \* Drawing::draw
    pins,     \* level of every control and data line of the two transports
    scroller  \* the Scroller handed out by configure_scroll

vars == << pc, ip, op, arg, ret, reset, events, width, height,
           input, row, i, lasty, startx, endx, pins, scroller >>

\* what the controller calls modelled at the level of the bus interface leave alone
aside == << pins, scroller >>

ctrl == << width, height >>
locals == << row, i, lasty, startx, endx >>

EmptyRow == [k \in 0 .. BUF_SIZE - 1 |-> 0]

\* the lines of the serial transport (cs, dc) and of the parallel one
DataPin(k) == << "d0", "d1", "d2", "d3", "d4", "d5", "d6", "d7" >>[k + 1]

PinNames == {"cs", "dc", "csx", "wrx", "rdx", "dcx"} \cup {DataPin(k) : k \in 0 .. 7}

IdlePins == [p \in PinNames |-> 1]

\* no Scroller has been handed out
NoScroller ==
    [top_offset |-> 0, fixed_top_lines |-> 0, fixed_bottom_lines |-> 0, height |-> 0]

\* let mut row = [0; BUF_SIZE]; let mut i = 0; let mut lasty = 0; ...
InitLocals ==
    /\ row' = EmptyRow
    /\ i' = 0
    /\ lasty' = 0
    /\ startx' = 0
    /\ endx' = 0

Init ==
    /\ pc = "new"
    /\ ip = 1
    /\ op = "new"
    /\ arg \in Orientation
    /\ ret = "running"
    /\ reset \in {0, 1}
    /\ events = <<>>
    /\ width = WIDTH
    /\ height = HEIGHT
    /\ input = <<>>
    /\ row = EmptyRow
    /\ i = 0
    /\ lasty = 0
    /\ startx = 0
    /\ endx = 0
    /\ pins = IdlePins
    /\ scroller = NoScroller

(***************************************************************************)
(* Ili9341::new, one step of the sequence at a time.  A pin operation or a *)
(* bus command may fail; `?` then returns the error at once.               *)
(***************************************************************************)
\* an error that is noted while the sequence carries on
new_fail_ignored(variant) ==
    /\ ret' = variant
    /\ ip' = ip + 1
    /\ UNCHANGED << pc, op, arg, reset, events, ctrl, input, locals >>

new_fail(variant) ==
    /\ pc' = "failed"
    /\ ret' = variant
    /\ UNCHANGED << ip, op, arg, reset, events, ctrl, input, locals >>

new_pin ==
    /\ pc = "new"
    /\ ip <= Len(new_steps)
    /\ new_steps[ip].kind = "pin"
    /\ \/ /\ reset' = new_steps[ip].val
          /\ events' = Append(events, new_steps[ip])
          /\ ip' = ip + 1
          /\ UNCHANGED << pc, op, arg, ret, ctrl, input, locals >>
       \/ new_fail("OutputPin")
    /\ UNCHANGED aside

new_delay ==
    /\ pc = "new"
    /\ ip <= Len(new_steps)
    /\ new_steps[ip].kind = "delay"
    /\ events' = Append(events, new_steps[ip])
    /\ ip' = ip + 1
    /\ UNCHANGED << pc, op, arg, ret, reset, ctrl, input, locals >>
    /\ UNCHANGED aside

new_command ==
    /\ pc = "new"
    /\ ip <= Len(new_steps)
    /\ new_steps[ip].kind = "write"
    /\ \/ /\ events' = Append(events, new_steps[ip])
          /\ ip' = ip + 1
          /\ UNCHANGED << pc, op, arg, ret, reset, ctrl, input, locals >>
       \/ new_fail("Interface")
    /\ UNCHANGED aside

new_return ==
    /\ pc = "new"
    /\ ip = Len(new_steps) + 1
    /\ pc' = "ready"
    /\ ret' = "Ok"
    /\ UNCHANGED << ip, op, arg, reset, events, ctrl, input, locals >>
    /\ UNCHANGED aside

(***************************************************************************)
(* A call that sends the bus commands cmds in order: the first n succeed;  *)
(* if n < Len(cmds) the next one fails and the call returns its error.     *)
(***************************************************************************)
\* a failed command that does not stop the ones after it
Send_continues(cmds, n) ==
    /\ events' = cmds
    /\ ret' = IF n = Len(cmds) THEN "Ok" ELSE "Interface"

Send(cmds, n) ==
    /\ events' = SubSeq(cmds, 1, n)
    /\ ret' = IF n = Len(cmds) THEN "Ok" ELSE "Interface"

(***************************************************************************)
(* Ili9341::set_orientation                                                *)
(***************************************************************************)
set_orientation(mode) ==
    /\ pc = "ready"
    /\ op' = "set_orientation"
    /\ arg' = mode
    /\ width' = OrientationSize(mode)[1]
    /\ height' = OrientationSize(mode)[2]
    /\ \E n \in 0 .. 1 :
          Send(<< command(MemoryAccessControl, << OrientationByte(mode) >>) >>, n)
    /\ input' = <<>>
    /\ UNCHANGED << pc, ip, reset, locals >>
    /\ UNCHANGED aside

(***************************************************************************)
(* Ili9341::draw_raw and Ili9341::draw_iter                                *)
(***************************************************************************)
\* draw_raw that puts the stored size back to portrait
draw_raw_portrait_size(x0, y0, x1, y1, data) ==
    /\ pc = "ready"
    /\ op' = "draw_raw"
    /\ \E n \in 0 .. 3 : Send(draw_raw_cmds(x0, y0, x1, y1, data), n)
    /\ input' = <<>>
    /\ width' = WIDTH
    /\ height' = HEIGHT
    /\ UNCHANGED << pc, ip, arg, reset, locals >>
    /\ UNCHANGED aside

draw_raw(x0, y0, x1, y1, data) ==
    /\ pc = "ready"
    /\ op' = "draw_raw"
    /\ \E n \in 0 .. 3 : Send(draw_raw_cmds(x0, y0, x1, y1, data), n)
    /\ input' = <<>>
    /\ UNCHANGED << pc, ip, arg, reset, ctrl, locals >>
    /\ UNCHANGED aside

draw_iter(x0, y0, x1, y1, data) ==
    /\ pc = "ready"
    /\ op' = "draw_iter"
    /\ \E n \in 0 .. 3 : Send(set_window(x0, y0, x1, y1) \o << write_iter(data) >>, n)
    /\ input' = <<>>
    /\ UNCHANGED << pc, ip, arg, reset, ctrl, locals >>
    /\ UNCHANGED aside

(***************************************************************************)
(* Drawing::draw (lib.rs), one pixel of the stream at a time               *)
(***************************************************************************)
Red == [r |-> 31, g |-> 0, b |-> 0]
Blue == [r |-> 0, g |-> 0, b |-> 31]

Pixel(x, y, color) == [x |-> x, y |-> y, color |-> color]

\* the pixels a stream is made of
Pixels ==
    { Pixel(0, 5, Red), Pixel(1, 5, Red), Pixel(2, 5, Red), Pixel(5, 5, Blue),
      Pixel(3, 6, Blue), Pixel(0, 240, Red),
      Pixel(240, 0, Blue), Pixel(0 - 1, 0, Red), Pixel(1, 0 - 1, Blue) }

\* the k-th pixel (from 0) of a stream that walks along row 7
RunPixel(k) == Pixel(k, 7, IF k % 2 = 0 THEN Red ELSE Blue)

Stream == Pixels \cup {RunPixel(k) : k \in 0 .. MaxRun - 1}

\* the stream may yield p next: any pixel while the stream is short, and
\* the next pixel of the row for as long as the stream has walked along it
Yields(p) ==
    \/ /\ Len(input) < MaxPixels
       /\ p \in Pixels
    \/ /\ Len(input) < MaxRun
       /\ p = RunPixel(Len(input))
       /\ \A k \in 1 .. Len(input) : input[k] = RunPixel(k - 1)

\* the run held in the buffer, as the bus commands of its draw_raw call
flush_cmds ==
    draw_raw_cmds(as_u16(startx), as_u16(lasty), as_u16(endx), as_u16(lasty),
                  RowSlice(row, i))

\* .expect("Failed to communicate with device") on a failed draw_raw
draw_panic ==
    /\ \E n \in 0 .. 2 : events' = events \o SubSeq(flush_cmds, 1, n)
    /\ pc' = "panicked"
    /\ ret' = "panic"

draw_begin ==
    /\ pc = "ready"
    /\ pc' = "draw"
    /\ op' = "draw"
    /\ arg' = "-"
    /\ ret' = "running"
    /\ events' = <<>>
    /\ input' = <<>>
    /\ InitLocals
    /\ UNCHANGED << ip, reset, ctrl >>
    /\ UNCHANGED aside

draw_filtered(p) ==
    /\ pc = "draw"
    /\ Yields(p)
    /\ ~ on_screen_pixels(p, width, height)
    /\ input' = Append(input, p)
    /\ UNCHANGED << pc, ip, op, arg, ret, reset, events, ctrl, locals >>
    /\ UNCHANGED aside

draw_buffer(p) ==
    /\ pc = "draw"
    /\ Yields(p)
    /\ on_screen_pixels(p, width, height)
    /\ contiguous(p, i, lasty, endx)
    /\ input' = Append(input, p)
    /\ startx' = IF i = 0 THEN p.x ELSE startx
    /\ row' = [row EXCEPT ![i] = RawU16(p.color)]
    /\ i' = i + 1
    /\ lasty' = p.y
    /\ endx' = p.x
    /\ UNCHANGED << pc, ip, op, arg, ret, reset, events, ctrl >>
    /\ UNCHANGED aside

draw_flush(p) ==
    /\ pc = "draw"
    /\ Yields(p)
    /\ on_screen_pixels(p, width, height)
    /\ ~ contiguous(p, i, lasty, endx)
    /\ input' = Append(input, p)
    /\ \/ /\ events' = events \o flush_cmds
          /\ i' = 1
          /\ startx' = p.x
          /\ row' = [row EXCEPT ![0] = RawU16(p.color)]
          /\ lasty' = p.y
          /\ endx' = p.x
          /\ UNCHANGED << pc, ret >>
       \/ /\ draw_panic
          /\ UNCHANGED locals
    /\ UNCHANGED << ip, op, arg, reset, ctrl >>
    /\ UNCHANGED aside

\* the end of the stream without the final flush
draw_end_no_flush ==
    /\ pc = "draw"
    /\ \/ /\ events' = events
          /\ pc' = "ready"
          /\ ret' = "Ok"
          /\ InitLocals
       \/ /\ i > 0
          /\ draw_panic
          /\ UNCHANGED locals
    /\ UNCHANGED << ip, op, arg, reset, ctrl, input >>
    /\ UNCHANGED aside

draw_end ==
    /\ pc = "draw"
    /\ \/ /\ events' = IF i > 0 THEN events \o flush_cmds ELSE events
          /\ pc' = "ready"
          /\ ret' = "Ok"
          /\ InitLocals
       \/ /\ i > 0
          /\ draw_panic
          /\ UNCHANGED locals
    /\ UNCHANGED << ip, op, arg, reset, ctrl, input >>
    /\ UNCHANGED aside

(***************************************************************************)
(* DrawTarget::draw_iter (graphics.rs and graphics_core.rs)                *)
(***************************************************************************)
\* draw_raw / draw_raw_slice of the single pixel p
pixel_cmds(p) ==
    draw_raw_cmds(as_u16(p.x), as_u16(p.y), as_u16(p.x), as_u16(p.y),
                  << RawU16(p.color) >>)

target_begin(which) ==
    /\ pc = "ready"
    /\ pc' = which
    /\ op' = which
    /\ arg' = "-"
    /\ ret' = "running"
    /\ events' = <<>>
    /\ input' = <<>>
    /\ UNCHANGED << ip, reset, ctrl, locals >>
    /\ UNCHANGED aside

\* a loop that notes the error and goes on with the next pixel
target_pixel_keeps_going(which, p, accepted) ==
    /\ pc = which
    /\ Len(input) < MaxIter
    /\ input' = Append(input, p)
    /\ IF accepted
       THEN \/ /\ events' = events \o pixel_cmds(p)
               /\ UNCHANGED << pc, ret >>
            \/ /\ \E n \in 0 .. 2 : events' = events \o SubSeq(pixel_cmds(p), 1, n)
               /\ pc' = pc
               /\ ret' = "Interface"
       ELSE UNCHANGED << pc, ret, events >>
    /\ UNCHANGED << ip, op, arg, reset, ctrl, locals >>
    /\ UNCHANGED aside

\* one iteration of the for loop: the pixel is skipped, or drawn with `?`
target_pixel(which, p, accepted) ==
    /\ pc = which
    /\ Len(input) < MaxIter
    /\ input' = Append(input, p)
    /\ IF accepted
       THEN \/ /\ events' = events \o pixel_cmds(p)
               /\ UNCHANGED << pc, ret >>
            \/ /\ \E n \in 0 .. 2 : events' = events \o SubSeq(pixel_cmds(p), 1, n)
               /\ pc' = "ready"
               /\ ret' = "Interface"
       ELSE UNCHANGED << pc, ret, events >>
    /\ UNCHANGED << ip, op, arg, reset, ctrl, locals >>
    /\ UNCHANGED aside

target_end(which) ==
    /\ pc = which
    /\ pc' = "ready"
    /\ ret' = "Ok"
    /\ UNCHANGED << ip, op, arg, reset, events, ctrl, input, locals >>
    /\ UNCHANGED aside

graphics_draw_iter_begin == target_begin("graphics")

graphics_draw_iter_pixel(p) ==
    target_pixel("graphics", p, graphics_on_screen(p, width, height))

graphics_draw_iter_end == target_end("graphics")

graphics_core_draw_iter_begin == target_begin("graphics_core")

graphics_core_draw_iter_pixel(p) ==
    target_pixel("graphics_core", p, bounding_box_contains(p, width, height))

graphics_core_draw_iter_end == target_end("graphics_core")

(***************************************************************************)
(* The driver: initialization, then any sequence of calls                  *)
(***************************************************************************)
Next ==
    \/ new_pin
    \/ new_delay
    \/ new_command
    \/ new_return
    \/ \E mode \in Orientation : set_orientation(mode)
    \/ draw_begin
    \/ \E p \in Stream : draw_filtered(p)
    \/ \E p \in Stream : draw_buffer(p)
    \/ \E p \in Stream : draw_flush(p)
    \/ draw_end
    \/ graphics_draw_iter_begin
    \/ \E p \in Pixels : graphics_draw_iter_pixel(p)
    \/ graphics_draw_iter_end
    \/ graphics_core_draw_iter_begin
    \/ \E p \in Pixels : graphics_core_draw_iter_pixel(p)
    \/ graphics_core_draw_iter_end

Spec == Init /\ [][Next]_vars

(***************************************************************************)
(* The driver with its remaining public calls: window writes and the      *)
(* width / height getters                                                  *)
(***************************************************************************)
\* what a getter hands back
Returned(v) == [kind |-> "value", val |-> v, data |-> <<>>]

\* Ili9341::width
width_getter ==
    /\ pc = "ready"
    /\ op' = "width"
    /\ ret' = "Ok"
    /\ events' = << Returned(width) >>
    /\ input' = <<>>
    /\ UNCHANGED << pc, ip, arg, reset, ctrl, locals >>
    /\ UNCHANGED aside

\* Ili9341::height
height_getter ==
    /\ pc = "ready"
    /\ op' = "height"
    /\ ret' = "Ok"
    /\ events' = << Returned(height) >>
    /\ input' = <<>>
    /\ UNCHANGED << pc, ip, arg, reset, ctrl, locals >>
    /\ UNCHANGED aside

\* window write requests: a window on the screen, and an inverted one out
\* of range
FrameWindows ==
    { << 0, 0, 9, 9, << 31 >> >>, << 300, 65535, 9, 256, << 63488, 31 >> >> }

NextFrame ==
    \/ Next
    \/ \E w \in FrameWindows : draw_raw(w[1], w[2], w[3], w[4], w[5])
    \/ \E w \in FrameWindows : draw_iter(w[1], w[2], w[3], w[4], w[5])
    \/ width_getter
    \/ height_getter

SpecFrame == Init /\ [][NextFrame]_vars

(***************************************************************************)
(* The window protocol on its own: an initialized controller and one       *)
(* window write request, applied through draw_raw and draw_iter            *)
(***************************************************************************)
Coords == {0, 9, 255, 256, 300, 65535}

Words == { <<>>,
           << 63488 >>,
           << 63488, 31, 65535 >>,
           << 1, 2, 3, 4, 5, 6, 7, 8, 9, 10 >> }

InitWindow ==
    /\ pc = "ready"
    /\ ip = Len(new_steps) + 1
    /\ op = "new"
    /\ arg \in Coords \X Coords \X Coords \X Coords \X Words
    /\ ret = "Ok"
    /\ reset = 1
    /\ events = new_steps
    /\ width = WIDTH
    /\ height = HEIGHT
    /\ input = <<>>
    /\ row = EmptyRow
    /\ i = 0
    /\ lasty = 0
    /\ startx = 0
    /\ endx = 0
    /\ pins = IdlePins
    /\ scroller = NoScroller

NextWindow ==
    \/ draw_raw(arg[1], arg[2], arg[3], arg[4], arg[5])
    \/ draw_iter(arg[1], arg[2], arg[3], arg[4], arg[5])

SpecWindow == InitWindow /\ [][NextWindow]_vars

(***************************************************************************)
(* The transports: SpiInterface (spi.rs) and Gpio8Interface (gpio.rs).     *)
(* A call is a straight line of pin operations and SPI writes, each        *)
(* followed by `?`.  The log of a transport call holds every pin set and   *)
(* every byte the panel receives, the latter with the levels of the        *)
(* chip-select and command/data-select lines at that moment.               *)
(***************************************************************************)
SetPin(pin, level) == [kind |-> "set", pin |-> pin, val |-> level, data |-> <<>>]

SpiWrite(bytes) == [kind |-> "spi", pin |-> "-", val |-> 0, data |-> bytes]

RECURSIVE Concat(_)
Concat(seqs) ==
    IF Len(seqs) = 0 THEN <<>>
    ELSE IF Len(seqs) = 1 THEN seqs[1]
    ELSE LET mid == Len(seqs) \div 2
         IN  Concat(SubSeq(seqs, 1, mid)) \o Concat(SubSeq(seqs, mid + 1, Len(seqs)))

\* u16::to_be_bytes written low byte first
to_be_bytes_swapped(w) == << as_u8(w), as_u8(Shr(w, 8)) >>

\* u16::to_be_bytes
to_be_bytes(w) == << as_u8(Shr(w, 8)), as_u8(w) >>

\* SpiInterface framing that raises command/data-select before the opcode
spi_open_dc_early(cmd) ==
    << SetPin("cs", 0), SetPin("dc", 0), SetPin("dc", 1), SpiWrite(<< cmd >>) >>

\* the common head of SpiInterface::write and write_iter
spi_open(cmd) ==
    << SetPin("cs", 0), SetPin("dc", 0), SpiWrite(<< cmd >>), SetPin("dc", 1) >>

spi_write_steps(cmd, data) ==
    spi_open(cmd) \o << SpiWrite(data) >> \o << SetPin("cs", 1) >>

spi_write_iter_steps(cmd, data) ==
    spi_open(cmd)
    \o [k \in 1 .. Len(data) |-> SpiWrite(to_be_bytes(data[k]))]
    \o << SetPin("cs", 1) >>

\* set_data_bus driving the most significant bit on the first data pin
set_data_bus_reversed(data) ==
    [k \in 1 .. 8 |->
        SetPin(DataPin(k - 1), IF BitAnd(Shr(data, 8 - k), 1) = 1 THEN 1 ELSE 0)]

\* Gpio8Interface::set_data_bus
set_data_bus(data) ==
    [k \in 1 .. 8 |->
        SetPin(DataPin(k - 1), IF BitAnd(Shr(data, k - 1), 1) = 1 THEN 1 ELSE 0)]

\* a byte whose data lines are driven before the write strobe goes low
gpio_byte_data_first(b) ==
    set_data_bus(b) \o << SetPin("wrx", 0) >> \o << SetPin("wrx", 1) >>

\* one byte on the parallel bus: write strobe low, data lines, write strobe high
gpio_byte(b) == << SetPin("wrx", 0) >> \o set_data_bus(b) \o << SetPin("wrx", 1) >>

\* the common head of Gpio8Interface::write and write_iter
gpio_open(cmd) ==
    << SetPin("csx", 0), SetPin("rdx", 1), SetPin("dcx", 0) >>
    \o gpio_byte(cmd)
    \o << SetPin("dcx", 1) >>

gpio_write_steps(cmd, data) ==
    gpio_open(cmd)
    \o Concat([k \in 1 .. Len(data) |-> gpio_byte(data[k])])
    \o << SetPin("csx", 1) >>

gpio_write_iter_steps(cmd, data) ==
    gpio_open(cmd)
    \o Concat([k \in 1 .. Len(data) |->
                  gpio_byte(to_be_bytes(data[k])[1]) \o gpio_byte(to_be_bytes(data[k])[2])])
    \o << SetPin("csx", 1) >>

\* the byte held on the eight data lines
BusValue(p) ==
    p["d0"] + 2 * p["d1"] + 4 * p["d2"] + 8 * p["d3"]
    + 16 * p["d4"] + 32 * p["d5"] + 64 * p["d6"] + 128 * p["d7"]

ByteSeen(b, select, dcsel) == [kind |-> "byte", val |-> b, data |-> << select, dcsel >>]

\* the lines after one step
StepPins(p, st) == IF st.kind = "set" THEN [p EXCEPT ![st.pin] = st.val] ELSE p

\* what step st adds to the log when the lines are p: the pin set, and the
\* bytes the panel receives (every byte of an SPI write; the data lines at a
\* rising edge of the write strobe)
StepLog(p, st) ==
    IF st.kind = "set"
    THEN << [kind |-> st.pin, val |-> st.val, data |-> <<>>] >>
         \o (IF st.pin = "wrx" /\ p["wrx"] = 0 /\ st.val = 1
             THEN << ByteSeen(BusValue(p), p["csx"], p["dcx"]) >>
             ELSE <<>>)
    ELSE [k \in 1 .. Len(st.data) |-> ByteSeen(st.data[k], p["cs"], p["dc"])]

IsBytes(data) == \A k \in 1 .. Len(data) : data[k] < 256

\* the straight-line program of the transport call in progress
TransferSteps ==
    CASE op = "spi_write"       -> spi_write_steps(arg[1], arg[2])
      [] op = "spi_write_iter"  -> spi_write_iter_steps(arg[1], arg[2])
      [] op = "gpio_write"      -> gpio_write_steps(arg[1], arg[2])
      [] op = "gpio_write_iter" -> gpio_write_iter_steps(arg[1], arg[2])

\* entry of a transport call
transfer_begin(name) ==
    /\ pc = "bus"
    /\ pc' = "transfer"
    /\ op' = name
    /\ ip' = 1
    /\ ret' = "running"
    /\ events' = <<>>
    /\ UNCHANGED << arg, reset, ctrl, input, locals, pins, scroller >>

spi_write ==
    /\ IsBytes(arg[2])
    /\ transfer_begin("spi_write")

spi_write_iter == transfer_begin("spi_write_iter")

gpio_write ==
    /\ IsBytes(arg[2])
    /\ transfer_begin("gpio_write")

gpio_write_iter == transfer_begin("gpio_write_iter")

\* an error path that releases the chip select before it returns
transfer_fail_releases(variant) ==
    /\ pc' = "bus"
    /\ ret' = variant
    /\ pins' = [pins EXCEPT !["cs"] = 1, !["csx"] = 1]
    /\ UNCHANGED << ip, op, arg, reset, events, ctrl, input, locals, scroller >>

\* `?` on a failed step: the call returns the error; the line of a failed
\* set_high / set_low is at its old or at the requested level
transfer_fail(variant) ==
    /\ pc' = "bus"
    /\ ret' = variant
    /\ pins' \in {pins, StepPins(pins, TransferSteps[ip])}
    /\ UNCHANGED << ip, op, arg, reset, events, ctrl, input, locals, scroller >>

transfer_done(st) ==
    /\ pins' = StepPins(pins, st)
    /\ events' = events \o StepLog(pins, st)
    /\ ip' = ip + 1
    /\ UNCHANGED << pc, op, arg, ret, reset, ctrl, input, locals, scroller >>

\* set_high / set_low on a control or data line
transfer_pin ==
    /\ pc = "transfer"
    /\ ip <= Len(TransferSteps)
    /\ TransferSteps[ip].kind = "set"
    /\ \/ transfer_done(TransferSteps[ip])
       \/ transfer_fail("OutputPin")

\* spi.write
transfer_spi ==
    /\ pc = "transfer"
    /\ ip <= Len(TransferSteps)
    /\ TransferSteps[ip].kind = "spi"
    /\ \/ transfer_done(TransferSteps[ip])
       \/ transfer_fail("Interface")

\* Ok(())
transfer_return ==
    /\ pc = "transfer"
    /\ ip = Len(TransferSteps) + 1
    /\ pc' = "bus"
    /\ ret' = "Ok"
    /\ UNCHANGED << ip, op, arg, reset, events, ctrl, input, locals, pins, scroller >>

\* opcodes and payloads handed to the transports
Opcodes == {MemoryWrite, MemoryAccessControl, 165}

Payloads == { <<>>, << 72 >>, << 18, 239 >>, << 63488 >>, << 4660, 255 >> }

InitBus ==
    /\ pc = "bus"
    /\ ip = 1
    /\ op = "none"
    /\ arg \in Opcodes \X Payloads
    /\ ret = "running"
    /\ reset = 1
    /\ events = <<>>
    /\ width = WIDTH
    /\ height = HEIGHT
    /\ input = <<>>
    /\ row = EmptyRow
    /\ i = 0
    /\ lasty = 0
    /\ startx = 0
    /\ endx = 0
    /\ pins \in {[p \in PinNames |-> 0], [p \in PinNames |-> 1]}
    /\ scroller = NoScroller

NextBus ==
    \/ spi_write
    \/ spi_write_iter
    \/ gpio_write
    \/ gpio_write_iter
    \/ transfer_pin
    \/ transfer_spi
    \/ transfer_return

SpecBus == InitBus /\ [][NextBus]_vars

(***************************************************************************)
(* Scroll controller (spec.md 4.7): configure_scroll hands out a Scroller, *)
(* scroll_by moves its top_offset                                          *)
(***************************************************************************)
VerticalScrollDefine == 51
VerticalScrollAddr == 55

\* scroll_by without the wrap
ScrollOffset_no_wrap(sc, n) == sc.top_offset + n

\* the top_offset scroll_by(n) leaves in the Scroller sc
ScrollOffset(sc, n) ==
    IF sc.top_offset + n > sc.height - sc.fixed_bottom_lines
    THEN sc.fixed_top_lines + (sc.top_offset + n - sc.height + sc.fixed_bottom_lines)
    ELSE sc.top_offset + n

\* the long axis of the panel in the current orientation
LongAxis == IF width > height THEN width ELSE height

configure_scroll(fixed_top, fixed_bottom) ==
    /\ pc = "ready"
    /\ op' = "configure_scroll"
    /\ arg' = << fixed_top, fixed_bottom >>
    /\ LET scroll_lines == LongAxis - fixed_top - fixed_bottom
       IN  \E n \in 0 .. 1 :
              /\ Send(<< command(VerticalScrollDefine,
                                 << as_u8(Shr(fixed_top, 8)), as_u8(fixed_top),
                                    as_u8(Shr(scroll_lines, 8)), as_u8(scroll_lines),
                                    as_u8(Shr(fixed_bottom, 8)), as_u8(fixed_bottom) >>) >>,
                      n)
              /\ scroller' = IF n = 1
                             THEN [top_offset |-> fixed_top,
                                   fixed_top_lines |-> fixed_top,
                                   fixed_bottom_lines |-> fixed_bottom,
                                   height |-> LongAxis]
                             ELSE scroller
    /\ input' = <<>>
    /\ UNCHANGED << pc, ip, reset, ctrl, locals, pins >>

scroll_by(n) ==
    /\ pc = "ready"
    /\ scroller # NoScroller
    /\ scroller.top_offset + n <= MaxOffset
    /\ op' = "scroll_by"
    /\ arg' = n
    /\ scroller' = [scroller EXCEPT !.top_offset = ScrollOffset(scroller, n)]
    /\ \E k \in 0 .. 1 :
          Send(<< command(VerticalScrollAddr,
                          << as_u8(Shr(ScrollOffset(scroller, n), 8)),
                             as_u8(ScrollOffset(scroller, n)) >>) >>, k)
    /\ input' = <<>>
    /\ UNCHANGED << pc, ip, reset, ctrl, locals, pins >>

\* fixed (top, bottom) margins and line counts the caller asks for
Margins == { << 10, 10 >>, << 0, 0 >>, << 20, 40 >> }

Lines == {0, 1, 300, 305, 700}

InitScroll ==
    /\ pc = "ready"
    /\ ip = Len(new_steps) + 1
    /\ op = "new"
    /\ arg = "Portrait"
    /\ ret = "Ok"
    /\ reset = 1
    /\ events = new_steps
    /\ width = WIDTH
    /\ height = HEIGHT
    /\ input = <<>>
    /\ row = EmptyRow
    /\ i = 0
    /\ lasty = 0
    /\ startx = 0
    /\ endx = 0
    /\ pins = IdlePins
    /\ scroller = NoScroller

NextScroll ==
    \/ \E mode \in Orientation : set_orientation(mode)
    \/ \E m \in Margins : configure_scroll(m[1], m[2])
    \/ \E n \in Lines : scroll_by(n)

SpecScroll == InitScroll /\ [][NextScroll]_vars

(***************************************************************************)
(* DrawTarget::fill_contiguous (graphics.rs and graphics_core.rs)          *)
(***************************************************************************)
\* Rectangle::new(top_left, size)
Rectangle(x, y, w, h) == [x |-> x, y |-> y, w |-> w, h |-> h]

\* a rectangle with a zero side has no bottom right corner
is_zero_sized(r) == r.w = 0 \/ r.h = 0

Max(a, b) == IF a >= b THEN a ELSE b

Min(a, b) == IF a <= b THEN a ELSE b

\* Rectangle::intersection: the overlap, or a zero sized rectangle
intersection(a, b) ==
    IF /\ ~ is_zero_sized(a)
       /\ ~ is_zero_sized(b)
       /\ Max(a.x, b.x) < Min(a.x + a.w, b.x + b.w)
       /\ Max(a.y, b.y) < Min(a.y + a.h, b.y + b.h)
    THEN Rectangle(Max(a.x, b.x), Max(a.y, b.y),
                   Min(a.x + a.w, b.x + b.w) - Max(a.x, b.x),
                   Min(a.y + a.h, b.y + b.h) - Max(a.y, b.y))
    ELSE Rectangle(0, 0, 0, 0)

\* a containment test that takes the column right of the rectangle as well
contains_inclusive(r, p) ==
    /\ p.x >= r.x /\ p.x <= r.x + r.w
    /\ p.y >= r.y /\ p.y < r.y + r.h

\* Rectangle::contains
contains(r, p) ==
    /\ p.x >= r.x /\ p.x < r.x + r.w
    /\ p.y >= r.y /\ p.y < r.y + r.h

\* Rectangle::points: the points of the rectangle, row by row
points(r) ==
    [k \in 1 .. r.w * r.h |-> [x |-> r.x + ((k - 1) % r.w), y |-> r.y + ((k - 1) \div r.w)]]

\* the k-th colour of the colour iterator
Colour(k) == [r |-> k % 32, g |-> (5 * k) % 64, b |-> (k + 9) % 32]

\* the iterator colors with n items
Colours(n) == [k \in 1 .. n |-> Colour(k)]

\* Iterator::zip: pairs until either side runs out
zip(ps, cs) == [k \in 1 .. Min(Len(ps), Len(cs)) |-> [pos |-> ps[k], color |-> cs[k]]]

\* .map(|(_, color)| RawU16::from(color).into_inner())
map_raw(zs) == [k \in 1 .. Len(zs) |-> RawU16(zs[k].color)]

\* .filter(|(pos, _)| drawable_area.contains(*pos))
filter_drawable(zs, drawable_area) ==
    SelectSeq(zs, LAMBDA z : contains(drawable_area, z.pos))

\* Rectangle::new(Point::zero(), self.size()), also self.bounding_box()
bounding_box == Rectangle(0, 0, width, height)

\* the window write of the drawable area with the given words
rect_cmds(d, words) ==
    draw_raw_cmds(as_u16(d.x), as_u16(d.y),
                  as_u16(d.x + (d.w - 1)), as_u16(d.y + (d.h - 1)), words)

\* fill_contiguous of graphics.rs
graphics_fill_contiguous(area, colors) ==
    /\ pc = "ready"
    /\ op' = "graphics_fill_contiguous"
    /\ LET drawable_area == intersection(area, bounding_box)
       IN  IF drawable_area.w # 0 \/ drawable_area.h # 0
           THEN \E n \in 0 .. 3 :
                   Send(rect_cmds(drawable_area,
                                  map_raw(filter_drawable(zip(points(area), colors),
                                                          drawable_area))), n)
           ELSE /\ events' = <<>>
                /\ ret' = "Ok"
    /\ input' = <<>>
    /\ UNCHANGED << pc, ip, arg, reset, ctrl, locals >>
    /\ UNCHANGED aside

\* fill_contiguous of graphics_core.rs
graphics_core_fill_contiguous(area, colors) ==
    /\ pc = "ready"
    /\ op' = "graphics_core_fill_contiguous"
    /\ LET drawable_area == intersection(area, bounding_box)
       IN  IF ~ is_zero_sized(drawable_area)
           THEN IF area = drawable_area
                THEN \E n \in 0 .. 3 :
                        Send(rect_cmds(drawable_area,
                                       map_raw(zip(points(area), colors))), n)
                ELSE \E n \in 0 .. 3 :
                        Send(rect_cmds(drawable_area,
                                       map_raw(filter_drawable(zip(points(area), colors),
                                                               drawable_area))), n)
           ELSE /\ events' = <<>>
                /\ ret' = "Ok"
    /\ input' = <<>>
    /\ UNCHANGED << pc, ip, arg, reset, ctrl, locals >>
    /\ UNCHANGED aside

\* areas around the corners of the screen, some with an empty side
Areas ==
    { Rectangle(x, y, w, h) :
        x \in {0 - 2, 0, 238, 240}, y \in {0 - 1, 0, 318, 320},
        w \in {0, 1, MaxSide}, h \in {0, 1, 2} }

\* an initialized controller in either orientation class and one request:
\* an area and the number of colours the iterator holds (one short of the
\* area, the area, one more)
InitFill ==
    /\ pc = "ready"
    /\ ip = Len(new_steps) + 1
    /\ op = "new"
    /\ arg \in { << a, n >> : a \in Areas, n \in 0 .. MaxSide * 2 + 1 }
    /\ arg[2] >= arg[1].w * arg[1].h - 1
    /\ arg[2] <= arg[1].w * arg[1].h + 1
    /\ ret = "Ok"
    /\ reset = 1
    /\ events = <<>>
    /\ width \in {WIDTH, HEIGHT}
    /\ height = WIDTH + HEIGHT - width
    /\ input = <<>>
    /\ row = EmptyRow
    /\ i = 0
    /\ lasty = 0
    /\ startx = 0
    /\ endx = 0
    /\ pins = IdlePins
    /\ scroller = NoScroller

NextFill ==
    \/ graphics_fill_contiguous(arg[1], Colours(arg[2]))
    \/ graphics_core_fill_contiguous(arg[1], Colours(arg[2]))

SpecFill == InitFill /\ [][NextFill]_vars

(***************************************************************************)
(* Vocabulary of the properties                                            *)
(***************************************************************************)
Hi(v) == v \div 256
Lo(v) == v % 256

IsBusCommand(e) == e.kind \in {"write", "write_iter"}

\* the bus commands of the log, in order
BusCommands == SelectSeq(events, IsBusCommand)

\* positions of the log holding the bus command with this opcode
PositionsOf(opcode) ==
    {k \in 1 .. Len(events) : IsBusCommand(events[k]) /\ events[k].val = opcode}

\* position of the first bus command of the log
FirstCommand ==
    CHOOSE k \in 1 .. Len(events) :
        /\ IsBusCommand(events[k])
        /\ \A j \in 1 .. k - 1 : ~ IsBusCommand(events[j])

\* milliseconds of delay recorded strictly between two positions of the log
RECURSIVE DelayBetween(_, _)
DelayBetween(a, b) ==
    IF a + 1 >= b THEN 0
    ELSE (IF events[a + 1].kind = "delay" THEN events[a + 1].val ELSE 0)
         + DelayBetween(a + 1, b)

\* initialization has returned a controller and no call was made since
Initialized == op = "new" /\ pc = "ready" /\ ret = "Ok"

\* C1: a successful draw_raw / draw_iter puts on the bus exactly
\* column-address-set 0x2A [x0 hi, x0 lo, x1 hi, x1 lo], row-address-set 0x2B
\* [y0 hi, y0 lo, y1 hi, y1 lo] and memory-write 0x2C with the words of data
\* in their order, whatever the corners (inverted, out of range) are.
C1_WindowProtocol ==
    (op \in {"draw_raw", "draw_iter"} /\ ret = "Ok") =>
        events =
            << [kind |-> "write", val |-> 42,
                data |-> << Hi(arg[1]), Lo(arg[1]), Hi(arg[3]), Lo(arg[3]) >>],
               [kind |-> "write", val |-> 43,
                data |-> << Hi(arg[2]), Lo(arg[2]), Hi(arg[4]), Lo(arg[4]) >>],
               [kind |-> "write_iter", val |-> 44, data |-> arg[5]] >>

C1_Witness ==
    /\ op = "draw_iter"
    /\ ret = "Ok"
    /\ arg[1] = 300 /\ arg[3] = 9
    /\ arg[2] = 65535 /\ arg[4] = 256
    /\ Len(arg[5]) = 10
    /\ Len(events) = 3

IsLandscape(mode) == mode \in {"Landscape", "LandscapeFlipped"}

\* C2: a successful set_orientation leaves (width, height) = (240, 320) for
\* Portrait / PortraitFlipped and (320, 240) for Landscape / LandscapeFlipped,
\* which is the previous pair swapped exactly when the landscape-class of
\* the call differs from that of the state it is applied to.
C2_OrientationSize ==
    [][ (op' = "set_orientation" /\ ret' = "Ok") =>
          /\ << width', height' >> =
                IF IsLandscape(arg') THEN << 320, 240 >> ELSE << 240, 320 >>
          /\ << width', height' >> =
                IF IsLandscape(arg') # (width > height)
                THEN << height, width >>
                ELSE << width, height >> ]_vars

C2_Witness ==
    /\ op = "set_orientation"
    /\ ret = "Ok"
    /\ arg = "LandscapeFlipped"
    /\ width = 320
    /\ height = 240

\* C3: a successful set_orientation issues exactly one bus command,
\* memory-access-control 0x36, with the single argument byte 0x48 (Portrait),
\* 0x28 (Landscape), 0x88 (PortraitFlipped) or 0xE8 (LandscapeFlipped).
C3_OrientationByte ==
    (op = "set_orientation" /\ ret = "Ok") =>
        events =
            << [kind |-> "write", val |-> 54,
                data |-> << CASE arg = "Portrait" -> 72
                              [] arg = "Landscape" -> 40
                              [] arg = "PortraitFlipped" -> 136
                              [] arg = "LandscapeFlipped" -> 232 >>] >>

C3_Witness ==
    /\ op = "set_orientation"
    /\ ret = "Ok"
    /\ arg = "LandscapeFlipped"
    /\ Len(events) = 1
    /\ events[1].data = << 232 >>

\* C4: when initialization has succeeded, the reset pin was driven low and
\* then high before the first bus command and is high; software-reset 0x01,
\* memory-access-control 0x36, pixel-format-set 0x3A [0x55], sleep-out 0x11
\* and display-on 0x29 were each issued once, in that order; software-reset
\* is the first bus command and display-on the last.
C4_InitSequence ==
    Initialized =>
        LET core == SelectSeq(BusCommands,
                              LAMBDA e : e.val \in {1, 54, 58, 17, 41})
        IN  /\ \E a, b \in 1 .. FirstCommand :
                  /\ a < b
                  /\ events[a].kind = "pin" /\ events[a].val = 0
                  /\ events[b].kind = "pin" /\ events[b].val = 1
            /\ reset = 1
            /\ [k \in 1 .. Len(core) |-> core[k].val] = << 1, 54, 58, 17, 41 >>
            /\ core[3].data = << 85 >>
            /\ BusCommands[1].val = 1
            /\ BusCommands[Len(BusCommands)].val = 41
            /\ events[Len(events)].val = 41

C4_Witness ==
    /\ Initialized
    /\ Len(BusCommands) = 21
    /\ reset = 1

\* C5: when initialization has succeeded, the reset pin was held low for at
\* least 1 ms, at least 5 ms of delay lie between the reset pin going high
\* and the first bus command, at least 120 ms between software-reset and
\* the next bus command, and at least 5 ms between sleep-out and display-on.
C5_InitDelays ==
    Initialized =>
        LET low == CHOOSE k \in 1 .. Len(events) :
                       events[k].kind = "pin" /\ events[k].val = 0
            high == CHOOSE k \in low + 1 .. Len(events) :
                       /\ events[k].kind = "pin" /\ events[k].val = 1
                       /\ \A j \in low + 1 .. k - 1 : events[j].kind # "pin"
            swreset == CHOOSE k \in PositionsOf(1) : TRUE
            after == CHOOSE k \in swreset + 1 .. Len(events) :
                       /\ IsBusCommand(events[k])
                       /\ \A j \in swreset + 1 .. k - 1 : ~ IsBusCommand(events[j])
            sleepout == CHOOSE k \in PositionsOf(17) : TRUE
            displayon == CHOOSE k \in PositionsOf(41) : TRUE
        IN  /\ DelayBetween(low, high) >= 1
            /\ DelayBetween(high, FirstCommand) >= 5
            /\ swreset = FirstCommand
            /\ DelayBetween(swreset, after) >= 120
            /\ DelayBetween(sleepout, displayon) >= 5

C5_Witness ==
    /\ Initialized
    /\ DelayBetween(0, Len(events) + 1) = 920

\* C6: initialization applies the orientation the caller asked for: the
\* argument byte of its memory-access-control command is the register value
\* of that orientation, and width()/height() are that orientation's
\* dimensions when initialization returns.
C6_InitAppliesRequested ==
    Initialized =>
        /\ \A k \in PositionsOf(54) :
              events[k].data =
                  << CASE arg = "Portrait" -> 72
                       [] arg = "Landscape" -> 40
                       [] arg = "PortraitFlipped" -> 136
                       [] arg = "LandscapeFlipped" -> 232 >>
        /\ << width, height >> =
              IF IsLandscape(arg) THEN << 320, 240 >> ELSE << 240, 320 >>

\* opcodes of the extended power / gamma commands: power control A/B, driver
\* timing control A/B, power-on sequence, pump ratio, power control 1/2,
\* VCOM control 1/2 ...
TuningBefore == {203, 207, 232, 234, 237, 247, 192, 193, 197, 199}
\* ... frame control, display function control, 3-gamma enable, gamma curve
\* selection, positive and negative gamma correction
TuningAfter == {177, 182, 242, 38, 224, 225}

\* C7 as stated: every extended power / gamma command is issued after
\* software-reset and before pixel-format-set.
C7_TuningBeforePixelFormat ==
    Initialized =>
        \A c \in TuningBefore \cup TuningAfter :
            /\ PositionsOf(c) # {}
            /\ \A k \in PositionsOf(c) :
                  /\ \A r \in PositionsOf(1) : r < k
                  /\ \A f \in PositionsOf(58) : k < f

\* C7 (amended): every extended power / gamma command is issued once, after
\* software-reset and before sleep-out; power control A/B, driver timing
\* control A/B, power-on sequence, pump ratio, power control 1/2 and VCOM
\* control 1/2 come before pixel-format-set, while frame control, display
\* function control, 3-gamma enable, gamma curve selection and the two
\* gamma correction tables of 15 entries each come after it.
C7_TuningPlacement ==
    Initialized =>
        /\ \A c \in TuningBefore \cup TuningAfter :
              /\ Cardinality(PositionsOf(c)) = 1
              /\ \A k \in PositionsOf(c) :
                    /\ \A r \in PositionsOf(1) : r < k
                    /\ \A z \in PositionsOf(17) : k < z
        /\ \A c \in TuningBefore :
              \A k \in PositionsOf(c), f \in PositionsOf(58) : k < f
        /\ \A c \in TuningAfter :
              \A k \in PositionsOf(c), f \in PositionsOf(58) : f < k
        /\ \A k \in PositionsOf(224) \cup PositionsOf(225) :
              Len(events[k].data) = 15

C7_Witness ==
    /\ Initialized
    /\ \E f \in PositionsOf(58), k \in PositionsOf(177) : k = f + 1
    /\ \E f \in PositionsOf(54), k \in PositionsOf(199) : f = k + 1

\* C8: a reset-pin operation or bus command that fails during initialization
\* ends it: the log holds exactly the steps before the failing one, nothing
\* is done afterwards, no controller is returned, and the error is the
\* OutputPin variant for a pin failure and the Interface variant for a bus
\* failure.
InitFailed ==
    /\ pc = "failed"
    /\ ip \in 1 .. Len(new_steps)
    /\ events = SubSeq(new_steps, 1, ip - 1)
    /\ new_steps[ip].kind \in {"pin", "write"}
    /\ ret = (IF new_steps[ip].kind = "pin" THEN "OutputPin" ELSE "Interface")

C8_InitAbortsOnError ==
    [][ /\ (op' = "new" /\ ret' \notin {"running", "Ok"}) => InitFailed'
        /\ (op = "new" /\ ret \notin {"running", "Ok"}) => UNCHANGED vars ]_vars

C8_Witness ==
    /\ pc = "failed"
    /\ ret = "Interface"
    /\ new_steps[ip].val = 58
    /\ Len(events) = ip - 1

\* the pixels of the stream taken so far that lie on the screen
OnScreen(p) == p.x >= 0 /\ p.y >= 0 /\ p.x < width /\ p.y < height

Accepted == SelectSeq(input, OnScreen)

AcceptedWords == [k \in 1 .. Len(Accepted) |-> RawU16(Accepted[k].color)]

\* the words of all memory-write commands of the log, in order
RECURSIVE WordsOf(_)
WordsOf(log) ==
    IF log = <<>> THEN <<>>
    ELSE (IF log[1].kind = "write_iter" THEN log[1].data ELSE <<>>)
         \o WordsOf(Tail(log))

IsPrefix(s, t) == Len(s) <= Len(t) /\ s = SubSeq(t, 1, Len(s))

InAdapter == op \in {"draw", "graphics", "graphics_core"}

\* C9: in Drawing::draw and both DrawTarget::draw_iter, a pixel with x < 0,
\* y < 0, x >= width() or y >= height() never reaches the bus: every window
\* sent lies inside [0, width) x [0, height), and the words sent (with those
\* still buffered) are the colours of the on-screen pixels taken so far, in
\* order, and of no other pixel.
C9_OffScreenFiltered ==
    InAdapter =>
        /\ \A k \in PositionsOf(42) :
              LET d == events[k].data
              IN  /\ d[1] * 256 + d[2] <= d[3] * 256 + d[4]
                  /\ d[3] * 256 + d[4] < width
        /\ \A k \in PositionsOf(43) :
              LET d == events[k].data
              IN  /\ d[1] * 256 + d[2] <= d[3] * 256 + d[4]
                  /\ d[3] * 256 + d[4] < height
        /\ IsPrefix(WordsOf(events) \o RowSlice(row, i), AcceptedWords)
        /\ ret \in {"running", "Ok"} =>
              WordsOf(events) \o RowSlice(row, i) = AcceptedWords

C9_Witness ==
    /\ op = "draw"
    /\ ret = "Ok"
    /\ width = 240
    /\ \E a, b, c \in 1 .. Len(input) :
          /\ input[a].x = 240 /\ input[a].y = 0
          /\ input[b].x = 0 - 1 /\ input[b].y = 0
          /\ OnScreen(input[c])
    /\ Len(WordsOf(events)) = Len(input) - 2

\* the maximal runs of a pixel sequence: consecutive pixels on one row, each
\* with x one more than the one before
RECURSIVE Runs(_)
Runs(s) ==
    IF s = <<>> THEN <<>>
    ELSE LET before == Runs(SubSeq(s, 1, Len(s) - 1))
             p == s[Len(s)]
             q == s[Len(s) - 1]
         IN  IF Len(s) > 1 /\ q.y = p.y /\ p.x = q.x + 1
             THEN [before EXCEPT ![Len(before)] = Append(@, p)]
             ELSE Append(before, << p >>)

\* C10: when Drawing::draw returns, and every maximal run of the on-screen
\* pixels is shorter than the buffer capacity, there is exactly one draw call
\* per maximal run, in order, with window (start_x, row)-(end_x, row) and
\* the colours of the run as its words.
C10_OneCallPerRun ==
    (op = "draw" /\ ret = "Ok") =>
        LET runs == Runs(Accepted)
        IN  (\A k \in 1 .. Len(runs) : Len(runs[k]) < 32) =>
                /\ Len(events) = 3 * Len(runs)
                /\ \A k \in 1 .. Len(runs) :
                      LET run == runs[k]
                          sx == run[1].x
                          ex == run[Len(run)].x
                          y == run[1].y
                      IN  /\ events[3 * k - 2] =
                                [kind |-> "write", val |-> 42,
                                 data |-> << Hi(sx), Lo(sx), Hi(ex), Lo(ex) >>]
                          /\ events[3 * k - 1] =
                                [kind |-> "write", val |-> 43,
                                 data |-> << Hi(y), Lo(y), Hi(y), Lo(y) >>]
                          /\ events[3 * k] =
                                [kind |-> "write_iter", val |-> 44,
                                 data |-> [j \in 1 .. Len(run) |->
                                              RawU16(run[j].color)]]

C10_Witness ==
    /\ op = "draw"
    /\ ret = "Ok"
    /\ input = << Pixel(0, 5, Red), Pixel(1, 5, Red), Pixel(2, 5, Red),
                  Pixel(5, 5, Blue) >>
    /\ Len(events) = 6
    /\ events[3].data = << 63488, 63488, 63488 >>
    /\ events[6].data = << 31 >>

\* the bytes the panel has received in this call, with the select levels
PanelSees == SelectSeq(events, LAMBDA e : e.kind = "byte")

\* the big-endian byte string of a word sequence
BigEndian(words) ==
    Concat([k \in 1 .. Len(words) |-> << words[k] \div 256, words[k] % 256 >>])

\* the payload bytes the call in progress is to deliver
PayloadBytes ==
    IF op \in {"spi_write", "gpio_write"} THEN arg[2] ELSE BigEndian(arg[2])

\* C11: a successful SpiInterface write / write_iter is exactly: chip-select
\* low, command/data-select low, the opcode byte, command/data-select high,
\* the data bytes, chip-select high; so every byte goes out with chip-select
\* low, the opcode with command/data-select low, the data with it high, and
\* chip-select is high once the call has returned.
C11_SpiFraming ==
    op \in {"spi_write", "spi_write_iter"} =>
        /\ \A k \in 1 .. Len(events) :
              events[k].kind = "byte" => events[k].data[1] = 0
        /\ ret = "Ok" =>
              /\ events =
                    << [kind |-> "cs", val |-> 0, data |-> <<>>],
                       [kind |-> "dc", val |-> 0, data |-> <<>>],
                       [kind |-> "byte", val |-> arg[1], data |-> << 0, 0 >>],
                       [kind |-> "dc", val |-> 1, data |-> <<>>] >>
                    \o [k \in 1 .. Len(PayloadBytes) |->
                           [kind |-> "byte", val |-> PayloadBytes[k],
                            data |-> << 0, 1 >>]]
                    \o << [kind |-> "cs", val |-> 1, data |-> <<>>] >>
              /\ pins["cs"] = 1

C11_Witness ==
    /\ op = "spi_write_iter"
    /\ ret = "Ok"
    /\ arg[2] = << 4660, 255 >>
    /\ Len(events) = 9
    /\ pins["cs"] = 1

\* C12: a successful write_iter, serial or parallel, delivers after the
\* opcode exactly the big-endian concatenation of the words: high byte then
\* low byte of each word, in the order of the sequence.
C12_WordsBigEndian ==
    (op \in {"spi_write_iter", "gpio_write_iter"} /\ ret = "Ok") =>
        [k \in 1 .. Len(PanelSees) |-> PanelSees[k].val]
            = << arg[1] >> \o BigEndian(arg[2])

C12_Witness ==
    /\ op = "gpio_write_iter"
    /\ ret = "Ok"
    /\ arg[2] = << 4660, 255 >>
    /\ [k \in 1 .. Len(PanelSees) |-> PanelSees[k].val] = << arg[1], 18, 52, 0, 255 >>

\* the log of a step sequence run from lines p without failure
RECURSIVE Replay(_, _)
Replay(steps, p) ==
    IF steps = <<>> THEN <<>>
    ELSE StepLog(p, steps[1]) \o Replay(Tail(steps), StepPins(p, steps[1]))

\* C16: a successful Gpio8Interface write / write_iter delivers to the panel
\* the same (select level, command/data level, byte) sequence as the
\* SpiInterface call with the same opcode and data, between one chip-select
\* low at the start and one chip-select high at the end.
C16_TransportsAgree ==
    (op \in {"gpio_write", "gpio_write_iter"} /\ ret = "Ok") =>
        LET serial == Replay(IF op = "gpio_write"
                             THEN spi_write_steps(arg[1], arg[2])
                             ELSE spi_write_iter_steps(arg[1], arg[2]), pins)
        IN  /\ PanelSees = SelectSeq(serial, LAMBDA e : e.kind = "byte")
            /\ Len(PanelSees) = 1 + Len(PayloadBytes)
            /\ events[1] = [kind |-> "csx", val |-> 0, data |-> <<>>]
            /\ events[Len(events)] = [kind |-> "csx", val |-> 1, data |-> <<>>]
            /\ \A k \in 2 .. Len(events) - 1 : events[k].kind # "csx"

C16_Witness ==
    /\ op = "gpio_write"
    /\ ret = "Ok"
    /\ arg = << 44, << 18, 239 >> >>
    /\ [k \in 1 .. Len(PanelSees) |-> PanelSees[k].val] = << 44, 18, 239 >>

\* the documented command opcode table
OpcodeTable ==
    {1, 17, 41, 42, 43, 44, 38, 58, 54, 51, 55}
    \cup (192 .. 199) \cup {203, 207} \cup (224 .. 226)
    \cup {232, 234, 237, 242, 247}

\* C13 as stated: every opcode sent on the bus is in the documented table.
C13_OpcodesInTable ==
    \A k \in 1 .. Len(events) :
        IsBusCommand(events[k]) => events[k].val \in OpcodeTable

\* C13 (amended): every opcode sent on the bus, in initialization or in a
\* later operation, is in the documented table or is frame-control 0xB1 or
\* display-function-control 0xB6, which initialization sends as well.
C13_OpcodesInTableOrFrameControl ==
    \A k \in 1 .. Len(events) :
        IsBusCommand(events[k]) => events[k].val \in OpcodeTable \cup {177, 182}

C13_Witness ==
    /\ Initialized
    /\ PositionsOf(177) # {}
    /\ PositionsOf(182) # {}
    /\ \A k \in 1 .. Len(events) :
          IsBusCommand(events[k]) /\ events[k].val \notin {177, 182}
              => events[k].val \in OpcodeTable

\* C14: scroll_by(n) sets top_offset to top_offset + n, or, when that
\* exceeds height - fixed_bottom_lines, to fixed_top_lines + (top_offset + n
\* - height + fixed_bottom_lines); from fixed_top = fixed_bottom = 10,
\* height = 320, top_offset = 10, scroll_by(305) gives top_offset = 15.
C14_ScrollByRule ==
    [][ op' = "scroll_by" =>
          LET t == scroller.top_offset + arg'
              limit == scroller.height - scroller.fixed_bottom_lines
          IN  /\ t <= limit => scroller'.top_offset = t
              /\ t > limit =>
                    scroller'.top_offset = scroller.fixed_top_lines + (t - limit)
              /\ ( /\ scroller.fixed_top_lines = 10
                   /\ scroller.fixed_bottom_lines = 10
                   /\ scroller.height = 320
                   /\ scroller.top_offset = 10
                   /\ arg' = 305 ) => scroller'.top_offset = 15 ]_vars

C14_Witness ==
    /\ op = "scroll_by"
    /\ arg = 305
    /\ scroller = [top_offset |-> 15, fixed_top_lines |-> 10,
                   fixed_bottom_lines |-> 10, height |-> 320]
    /\ events = << [kind |-> "write", val |-> 55, data |-> << 0, 15 >>] >>

\* C15: the top_offset of a Scroller always lies in the half-open band
\* [fixed_top_lines, height - fixed_bottom_lines).
C15_OffsetInBand ==
    scroller # NoScroller =>
        /\ scroller.fixed_top_lines <= scroller.top_offset
        /\ scroller.top_offset < scroller.height - scroller.fixed_bottom_lines

\* C17: when Drawing::draw returns from a stream that is one contiguous
\* same-row run of N on-screen pixels, it has emitted ceil(N / 32) draw
\* calls, and a run of exactly 32 pixels is one call of 32 words.
C17_FullBufferOneCall ==
    (op = "draw" /\ ret = "Ok" /\ Len(Runs(Accepted)) = 1) =>
        /\ Len(events) = 3 * ((Len(Accepted) + BUF_SIZE - 1) \div BUF_SIZE)
        /\ Len(Accepted) = BUF_SIZE => Len(events[3].data) = BUF_SIZE

\* the draw calls of a log, three bus commands each, expanded to the pixels
\* they paint: word k (from 0) of a call goes to (start_x + k, row)
RECURSIVE Expand(_)
Expand(log) ==
    IF Len(log) < 3 THEN <<>>
    ELSE LET col == log[Len(log) - 2].data
             rowd == log[Len(log) - 1].data
             words == log[Len(log)].data
         IN  Expand(SubSeq(log, 1, Len(log) - 3))
             \o [k \in 1 .. Len(words) |->
                    [x |-> col[1] * 256 + col[2] + k - 1,
                     y |-> rowd[1] * 256 + rowd[2],
                     word |-> words[k]]]

\* C18: when Drawing::draw returns, its draw calls, expanded to (x, y,
\* colour) triples, are the on-screen pixels of the input in input order,
\* each once; every call has y0 = y1 and x1 - x0 + 1 words.
C18_CallsPaintAccepted ==
    (op = "draw" /\ ret = "Ok") =>
        /\ Len(events) % 3 = 0
        /\ \A k \in 1 .. Len(events) \div 3 :
              LET col == events[3 * k - 2]
                  rowc == events[3 * k - 1]
                  mem == events[3 * k]
              IN  /\ col.kind = "write" /\ col.val = 42
                  /\ rowc.kind = "write" /\ rowc.val = 43
                  /\ mem.kind = "write_iter" /\ mem.val = 44
                  /\ rowc.data[1] = rowc.data[3]
                  /\ rowc.data[2] = rowc.data[4]
                  /\ Len(mem.data) =
                        (col.data[3] * 256 + col.data[4])
                        - (col.data[1] * 256 + col.data[2]) + 1
        /\ Expand(events) =
              [k \in 1 .. Len(Accepted) |->
                  [x |-> Accepted[k].x, y |-> Accepted[k].y,
                   word |-> RawU16(Accepted[k].color)]]

C18_Witness ==
    /\ op = "draw"
    /\ ret = "Ok"
    /\ input = << Pixel(0 - 1, 0, Red), Pixel(1, 5, Red), Pixel(2, 5, Red),
                  Pixel(3, 6, Blue) >>
    /\ Expand(events) =
          << [x |-> 1, y |-> 5, word |-> 63488],
             [x |-> 2, y |-> 5, word |-> 63488],
             [x |-> 3, y |-> 6, word |-> 31] >>

\* C19: the step on which Drawing::draw returns sends the run still in the
\* buffer as one more draw call, so that every accepted pixel has been
\* sent; a stream with no on-screen pixel leaves the bus untouched.
C19_FinalFlush ==
    [][ (pc = "draw" /\ pc' = "ready") =>
          /\ ret' = "Ok"
          /\ i = 0 => events' = events
          /\ i > 0 =>
                /\ Len(events') = Len(events) + 3
                /\ SubSeq(events', 1, Len(events)) = events
                /\ events'[Len(events')] =
                      [kind |-> "write_iter", val |-> 44,
                       data |-> [k \in 1 .. i |-> row[k - 1]]]
          /\ WordsOf(events') = AcceptedWords'
          /\ Accepted' = <<>> => events' = <<>> ]_vars

C19_Witness ==
    /\ op = "draw"
    /\ pc = "ready"
    /\ ret = "Ok"
    /\ input = << Pixel(0, 5, Red), Pixel(5, 5, Blue), Pixel(240, 0, Blue) >>
    /\ Len(events) = 6
    /\ events[6].data = << 31 >>

\* C20: a draw_raw / draw_iter that fails returns the bus error, and the
\* bus has seen only the commands before the failing one: nothing after a
\* failed column-address-set, only column-address-set after a failed
\* row-address-set, never the memory-write opcode it failed on, and no
\* command twice.
C20_DrawAbortsOnError ==
    (op \in {"draw_raw", "draw_iter"} /\ ret # "Ok") =>
        /\ ret = "Interface"
        /\ Len(events) <= 2
        /\ IsPrefix(events,
              << [kind |-> "write", val |-> 42,
                  data |-> << Hi(arg[1]), Lo(arg[1]), Hi(arg[3]), Lo(arg[3]) >>],
                 [kind |-> "write", val |-> 43,
                  data |-> << Hi(arg[2]), Lo(arg[2]), Hi(arg[4]), Lo(arg[4]) >>] >>)
        /\ WordsOf(events) = <<>>

C20_Witness ==
    /\ op = "draw_raw"
    /\ ret = "Interface"
    /\ Len(arg[5]) > 0
    /\ Len(events) = 1
    /\ events[1].val = 42

\* C21: a set_orientation whose bus write fails returns the error and
\* leaves width and height as they were before the call.
C21_FailedOrientationKeepsSize ==
    [][ (op' = "set_orientation" /\ pc = "ready" /\ ret' # "Ok") =>
          (width' = width /\ height' = height) ]_vars

IsSpi == op \in {"spi_write", "spi_write_iter"}

TransferFailed == ret \in {"OutputPin", "Interface"}

\* C22 as stated: after a failed SpiInterface call chip-select is high only
\* if the closing release was the failing step, and low after a failure at
\* any earlier step.
C22_SelectHighOnlyAfterLastStep ==
    (IsSpi /\ TransferFailed) =>
        /\ pins["cs"] = 1 => ip = Len(TransferSteps)
        /\ ip < Len(TransferSteps) => pins["cs"] = 0

\* C22 (amended): a failed SpiInterface write / write_iter has returned at
\* the failing step, an OutputPin error for a pin and an Interface error for
\* an SPI write, with exactly the steps before it performed; chip-select is
\* low when the failing step comes after the opening chip-select assert and
\* before the closing release.
C22_SpiAbortsAtFailingStep ==
    (IsSpi /\ TransferFailed) =>
        /\ pc = "bus"
        /\ ip <= Len(TransferSteps)
        /\ ret = (IF TransferSteps[ip].kind = "set" THEN "OutputPin" ELSE "Interface")
        /\ events = Replay(SubSeq(TransferSteps, 1, ip - 1), pins)
        /\ (1 < ip /\ ip < Len(TransferSteps)) => pins["cs"] = 0

C22_Witness ==
    /\ op = "spi_write_iter"
    /\ ret = "Interface"
    /\ arg[2] = << 4660, 255 >>
    /\ ip = 6
    /\ Len(events) = 6
    /\ pins["cs"] = 0

IsGpio == op \in {"gpio_write", "gpio_write_iter"}

LineSet(line, level) == [kind |-> line, val |-> level, data |-> <<>>]

\* one byte as the claim frames it: write strobe low, data line k at bit k
\* of the byte, write strobe high, at which edge the panel reads the byte
ByteFrame(b, dcsel) ==
    << LineSet("wrx", 0) >>
    \o [k \in 1 .. 8 |-> LineSet(DataPin(k - 1), (b \div 2 ^ (k - 1)) % 2)]
    \o << LineSet("wrx", 1), [kind |-> "byte", val |-> b, data |-> << 0, dcsel >>] >>

\* C23: a successful Gpio8Interface write / write_iter is chip-select low,
\* read strobe high, command/data-select low, the opcode byte, command/
\* data-select high, the data bytes, chip-select high, each byte framed as
\* write strobe low, data line i at bit i of the byte, write strobe high;
\* the data lines hold the whole byte at each rising strobe edge and the
\* read strobe is never driven low.
C23_GpioByteFraming ==
    IsGpio =>
        /\ \A k \in 1 .. Len(events) : events[k].kind = "rdx" => events[k].val = 1
        /\ ret = "Ok" =>
              /\ events =
                    << LineSet("csx", 0), LineSet("rdx", 1), LineSet("dcx", 0) >>
                    \o ByteFrame(arg[1], 0)
                    \o << LineSet("dcx", 1) >>
                    \o Concat([k \in 1 .. Len(PayloadBytes) |->
                                  ByteFrame(PayloadBytes[k], 1)])
                    \o << LineSet("csx", 1) >>
              /\ pins["rdx"] = 1

C23_Witness ==
    /\ op = "gpio_write_iter"
    /\ ret = "Ok"
    /\ arg = << 165, << 4660, 255 >> >>
    /\ Len(events) = 60
    /\ events[14] = [kind |-> "byte", val |-> 165, data |-> << 0, 0 >>]
    /\ events[26] = [kind |-> "byte", val |-> 18, data |-> << 0, 1 >>]

IsFill == op \in {"graphics_fill_contiguous", "graphics_core_fill_contiguous"}

\* the part of the requested area on the display, as inclusive corners
ClipLeft == IF arg[1].x > 0 THEN arg[1].x ELSE 0
ClipTop == IF arg[1].y > 0 THEN arg[1].y ELSE 0
ClipRight ==
    (IF arg[1].x + arg[1].w < width THEN arg[1].x + arg[1].w ELSE width) - 1
ClipBottom ==
    (IF arg[1].y + arg[1].h < height THEN arg[1].y + arg[1].h ELSE height) - 1

ClipEmpty == ClipRight < ClipLeft \/ ClipBottom < ClipTop

\* raster positions (from 1) of the area that received a colour
Paired ==
    [k \in 1 .. (IF arg[2] < arg[1].w * arg[1].h THEN arg[2] ELSE arg[1].w * arg[1].h)
        |-> k]

OnDisplay(k) ==
    LET x == arg[1].x + ((k - 1) % arg[1].w)
        y == arg[1].y + ((k - 1) \div arg[1].w)
    IN  x >= 0 /\ x < width /\ y >= 0 /\ y < height

\* the words of the colours whose point of the area is on the display
ClipWords ==
    LET kept == SelectSeq(Paired, OnDisplay)
    IN  [j \in 1 .. Len(kept) |->
            (kept[j] % 32) * 2048 + ((5 * kept[j]) % 64) * 32 + ((kept[j] + 9) % 32)]

\* C24: a successful fill_contiguous issues nothing when the area misses the
\* display, and otherwise one window write at the corners of the clipped
\* area with the colours of the on-display points in raster order (as many
\* as the clipped area has points when the colours cover the area); an area
\* fully on the display gets every paired colour from both branches of
\* graphics_core.rs.
C24_FillClamped ==
    (IsFill /\ ret = "Ok") =>
        IF ClipEmpty
        THEN events = <<>>
        ELSE /\ events =
                   << [kind |-> "write", val |-> 42,
                       data |-> << Hi(ClipLeft), Lo(ClipLeft),
                                   Hi(ClipRight), Lo(ClipRight) >>],
                      [kind |-> "write", val |-> 43,
                       data |-> << Hi(ClipTop), Lo(ClipTop),
                                   Hi(ClipBottom), Lo(ClipBottom) >>],
                      [kind |-> "write_iter", val |-> 44, data |-> ClipWords] >>
             /\ arg[2] >= arg[1].w * arg[1].h =>
                   Len(events[3].data) =
                      (ClipRight - ClipLeft + 1) * (ClipBottom - ClipTop + 1)
             /\ ( /\ ClipLeft = arg[1].x
                  /\ ClipTop = arg[1].y
                  /\ ClipRight = arg[1].x + arg[1].w - 1
                  /\ ClipBottom = arg[1].y + arg[1].h - 1 ) =>
                   Len(events[3].data) = Len(Paired)

C24_Witness ==
    /\ op = "graphics_core_fill_contiguous"
    /\ ret = "Ok"
    /\ width = 240
    /\ arg = << Rectangle(238, 0 - 1, 3, 2), 6 >>
    /\ Len(events) = 3
    /\ events[1].data = << 0, 238, 0, 239 >>
    /\ events[2].data = << 0, 0, 0, 0 >>
    /\ events[3].data = << RawU16(Colour(4)), RawU16(Colour(5)) >>

IsTarget == op \in {"graphics", "graphics_core"}

\* one window write per pixel: window (x, y)-(x, y) and the colour word
SinglePixelWrites(ps) ==
    Concat([k \in 1 .. Len(ps) |->
               << [kind |-> "write", val |-> 42,
                   data |-> << Hi(ps[k].x), Lo(ps[k].x), Hi(ps[k].x), Lo(ps[k].x) >>],
                  [kind |-> "write", val |-> 43,
                   data |-> << Hi(ps[k].y), Lo(ps[k].y), Hi(ps[k].y), Lo(ps[k].y) >>],
                  [kind |-> "write_iter", val |-> 44,
                   data |-> << RawU16(ps[k].color) >>] >>])

\* C25: DrawTarget::draw_iter has issued one single-pixel window write for
\* each on-screen pixel taken from the stream, in input order; when a write
\* fails the call has returned the error, the failing pixel is the last one
\* taken, and only the commands before the failing one are on the bus.
C25_OneWritePerPixel ==
    IsTarget =>
        /\ ret \in {"running", "Ok"} => events = SinglePixelWrites(Accepted)
        /\ ret \notin {"running", "Ok"} =>
              /\ ret = "Interface"
              /\ pc = "ready"
              /\ input # <<>>
              /\ OnScreen(input[Len(input)])
              /\ IsPrefix(SinglePixelWrites(SubSeq(Accepted, 1, Len(Accepted) - 1)),
                          events)
              /\ Len(events) < 3 * Len(Accepted)
              /\ IsPrefix(events, SinglePixelWrites(Accepted))

C25_Witness ==
    /\ op = "graphics_core"
    /\ ret = "Interface"
    /\ input = << Pixel(240, 0, Blue), Pixel(2, 5, Red), Pixel(3, 6, Blue) >>
    /\ Len(events) = 4
    /\ events[3].data = << 63488 >>
    /\ events[4].data = << 0, 3, 0, 3 >>

\* C26: the stored size is always 240 x 320 one way or the other, and it
\* changes only in a set_orientation call: window writes, the batching
\* draw, the unbatched draw and the getters leave it alone, whether they
\* succeed or fail.
C26_OnlyOrientationResizes ==
    /\ [](<< width, height >> \in { << 240, 320 >>, << 320, 240 >> })
    /\ [][ /\ (width' # width \/ height' # height) =>
                (pc = "ready" /\ op' = "set_orientation")
           /\ op' \in {"draw_raw", "draw_iter", "draw", "graphics",
                       "graphics_core", "width", "height"} =>
                (width' = width /\ height' = height)
           /\ op' = "width" => events' = << [kind |-> "value", val |-> width, data |-> <<>>] >>
           /\ op' = "height" => events' = << [kind |-> "value", val |-> height, data |-> <<>>] >>
         ]_vars

C26_Witness ==
    /\ op = "draw_raw"
    /\ ret = "Interface"
    /\ Len(events) = 2
    /\ width = 320
    /\ height = 240

\* C27: in Drawing::draw the buffer keeps its 32 slots, every write
\* row[i] has 0 <= i < 32, and every flush hands over row[0..i] with
\* 1 <= i <= 32.
C27_FillCountInBuffer ==
    /\ [](DOMAIN row = 0 .. 31 /\ i \in 0 .. 32)
    /\ [][ (pc = "draw") =>
              /\ i' = i + 1 => (0 <= i /\ i < 32)
              /\ Len(events') > Len(events) => (1 <= i /\ i <= 32)
              /\ Len(events') = Len(events) + 3 =>
                    Len(events'[Len(events')].data) = i ]_vars

C27_Witness ==
    /\ op = "draw"
    /\ pc = "draw"
    /\ Len(input) = 32
    /\ i = 1
    /\ Len(events) = 3
    /\ Len(events[3].data) = 31

====
